---- MODULE Spec2Model ----
(***************************************************************************)
(* Flow control components of lab.js: prepareNested, Sequence and          *)
(* Parallel, run over a tree of components.  A component is a node; the    *)
(* containers' hooks (onPrepare, onRun, onEnd, step, progress) are         *)
(* translated from flow.js, the lifecycle of the base Component            *)
(* (prepare / run / end and its events) from the specification.            *)
(***************************************************************************)
EXTENDS Integers, Sequences, FiniteSets, TLC

\* ------------------------------------------------------------------ bounds
MaxChildren == 3
MaxDirectSteps == 2
MaxParameters == 2
MaxSample == 2
MaxWrites == 1

NumNodes == IF MaxChildren + 1 > 5 THEN MaxChildren + 1 ELSE 5
Nodes == 1..NumNodes
Root == CHOOSE n \in Nodes : \A m \in Nodes : n <= m

\* ------------------------------------------------- values of the core
\* status, ordered and comparable
initialized == 0
prepared == 1
running == 2
done == 3

NoId == "<null>"
NoComp == 0
NoReason == "<undefined>"
Undefined == -1
TemplateRef == 0
NaN == <<0, 0>>
One == <<1, 1>>
Zero == <<0, 1>>

VARIABLES
  kind,        \* "seq" | "par" | "leaf" | "none" (node not part of the tree)
  mode,        \* options.mode of a Parallel: "race" | "all"
  shuffle,     \* options.shuffle of a Sequence
  content,     \* options.content
  optId,       \* options.id
  parent,      \* parent link
  status,      \* status of the component
  prep,        \* position of prepare(): "idle" | "called" | "hooked" | "done"
               \* | "failed" (its promise rejected)
  iterator,    \* internals.iterator: index of the next entry, -1 before onPrepare
  curPos,      \* internals.currentPosition
  curComp,     \* internals.currentComponent
  stepperOn,   \* the parent's stepper is subscribed to this node's after:end
  afterEnd,    \* the node's after:end event is still to be emitted
  waitEnd,     \* waitFor('end') on this node: "none" | "waiting" | "resolved"
  watcher,     \* the .then of a Parallel's onRun: "none" | "armed" | "fired"
  endedOn,     \* reason of the end
  runCalls,    \* number of run() invocations
  endCalls,    \* number of end() invocations
  abortCalls,  \* number of end() invocations made by the parent's onEnd
  stepCalls,   \* number of step() invocations
  stepErr,     \* number of step() invocations that threw
  directSteps, \* number of step() invocations made by the embedding code
  visited,     \* entries pulled from the iterator, in order
  loopOpt,     \* options of a Loop at the root: template, templateParameters,
               \* sample (template "none": the root is not a Loop)
  paramsRef,   \* the object that is the component's options.parameters
  paramsObj,   \* the parameter objects; TemplateRef is the template's
  made,        \* the arguments of the factory call that returned the component
  log,         \* calls of the randomness capability and of console.warn, in order
  writes       \* number of parameters set by the embedding code

vars == <<kind, mode, shuffle, content, optId, parent, status, prep, iterator,
          curPos, curComp, stepperOn, afterEnd, waitEnd, watcher, endedOn,
          runCalls, endCalls, abortCalls, stepCalls, stepErr, directSteps,
          visited, loopOpt, paramsRef, paramsObj, made, log, writes>>

World ==
  [content |-> content, optId |-> optId, parent |-> parent, status |-> status,
   prep |-> prep, iterator |-> iterator, curPos |-> curPos,
   curComp |-> curComp, stepperOn |-> stepperOn, afterEnd |-> afterEnd,
   waitEnd |-> waitEnd, watcher |-> watcher, endedOn |-> endedOn,
   runCalls |-> runCalls, endCalls |-> endCalls, abortCalls |-> abortCalls,
   stepCalls |-> stepCalls,
   stepErr |-> stepErr, directSteps |-> directSteps, visited |-> visited,
   paramsRef |-> paramsRef, paramsObj |-> paramsObj, made |-> made,
   log |-> log, writes |-> writes]

ApplyWorld(w) ==
  /\ content' = w.content
  /\ optId' = w.optId
  /\ parent' = w.parent
  /\ status' = w.status
  /\ prep' = w.prep
  /\ iterator' = w.iterator
  /\ curPos' = w.curPos
  /\ curComp' = w.curComp
  /\ stepperOn' = w.stepperOn
  /\ afterEnd' = w.afterEnd
  /\ waitEnd' = w.waitEnd
  /\ watcher' = w.watcher
  /\ endedOn' = w.endedOn
  /\ runCalls' = w.runCalls
  /\ endCalls' = w.endCalls
  /\ abortCalls' = w.abortCalls
  /\ stepCalls' = w.stepCalls
  /\ stepErr' = w.stepErr
  /\ directSteps' = w.directSteps
  /\ visited' = w.visited
  /\ paramsRef' = w.paramsRef
  /\ paramsObj' = w.paramsObj
  /\ made' = w.made
  /\ log' = w.log
  /\ writes' = w.writes

Apply(w) == ApplyWorld(w) /\ UNCHANGED <<kind, mode, shuffle, loopOpt>>

Range(s) == {s[i] : i \in 1..Len(s)}
IndexOf(s, c) == CHOOSE i \in 1..Len(s) : s[i] = c
Shuffles(s) ==
  {p \in [1..Len(s) -> Range(s)] : \A i, j \in 1..Len(s) : p[i] = p[j] => i = j}
Containers == {n \in Nodes : kind[n] \in {"seq", "par"}}
Sequences == {n \in Nodes : kind[n] = "seq"}
Parallels == {n \in Nodes : kind[n] = "par"}
Tree == {n \in Nodes : kind[n] # "none"}

\* ------------------------------------------------------------ rationals
RECURSIVE Gcd(_, _)
Gcd(a, b) == IF b = 0 THEN a ELSE Gcd(b, a % b)
Norm(r) == IF r[2] = 0 THEN NaN ELSE <<r[1] \div Gcd(r[1], r[2]), r[2] \div Gcd(r[1], r[2])>>
RatAdd(a, b) ==
  IF a[2] = 0 \/ b[2] = 0 THEN NaN ELSE Norm(<<a[1] * b[2] + b[1] * a[2], a[2] * b[2]>>)
RatDiv(a, k) == IF a[2] = 0 \/ k = 0 THEN NaN ELSE Norm(<<a[1], a[2] * k>>)
RECURSIVE RatSum(_, _)
RatSum(ps, i) == IF i > Len(ps) THEN Zero ELSE RatAdd(ps[i], RatSum(ps, i + 1))
\* lodash mean: sum / length, NaN for an empty array
mean(ps) == IF Len(ps) = 0 THEN NaN ELSE RatDiv(RatSum(ps, 1), Len(ps))

\* ------------------------------------------------------- prepareNested
\* ids that leave out the id of the parent
prepareNestedIds_Flat(w, nested, p) ==
  [c \in Nodes |->
     IF c \in Range(nested) THEN ToString(IndexOf(nested, c) - 1) ELSE w.optId[c]]

\* the ids prepareNested sets on the nested components
prepareNestedIds(w, nested, p) ==
  [c \in Nodes |->
     IF c \in Range(nested)
     THEN IF w.optId[p] = NoId
          THEN ToString(IndexOf(nested, c) - 1)
          ELSE w.optId[p] \o "_" \o ToString(IndexOf(nested, c) - 1)
     ELSE w.optId[c]]

\* parent links, then ids, then prepare(false) on every nested component
prepareNested(w, nested, p) ==
  [w EXCEPT
     !.parent = [c \in Nodes |-> IF c \in Range(nested) THEN p ELSE w.parent[c]],
     !.optId = prepareNestedIds(w, nested, p),
     !.prep = [c \in Nodes |-> IF c \in Range(nested) THEN "called" ELSE w.prep[c]]]

\* the promise prepareNested returns: Promise.all over the children's prepare
prepareNestedSettled(w, nested) == \A c \in Range(nested) : w.prep[c] = "done"

\* Promise.all rejects as soon as the prepare of one child rejects
prepareNestedRejected(w, nested) == \E c \in Range(nested) : w.prep[c] = "failed"

\* ------------------------------------------- lifecycle of a component
RECURSIVE ComponentRun(_, _), ComponentEnd(_, _, _), SequenceStep(_, _)
RECURSIVE RunAll(_, _, _), EndAll(_, _, _)

\* the run of every entry of a list, in list order
RunAll(w, cs, i) ==
  IF i > Len(cs) THEN w ELSE RunAll(ComponentRun(w, cs[i]), cs, i + 1)

\* Sequence.onPrepare: shuffle (perm is the permutation drawn), iterator,
\* stepper, prepareNested
SequenceOnPrepare(w, n, perm) ==
  LET w1 == [w EXCEPT !.content[n] = IF shuffle[n] THEN perm ELSE @,
                      !.log = IF shuffle[n] THEN Append(@, "shuffle") ELSE @,
                      !.iterator[n] = 0]
  IN prepareNested(w1, w1.content[n], n)

\* the await of Sequence.onPrepare on the promise of prepareNested
SequenceOnPrepareSettled(w, n) == prepareNestedSettled(w, w.content[n])

\* the await of Sequence.onPrepare throws when the promise rejects
SequenceOnPrepareRejected(w, n) == prepareNestedRejected(w, w.content[n])

\* Parallel.onPrepare: prepareNested, its promise dropped
ParallelOnPrepare(w, n) == prepareNested(w, w.content[n], n)

ParallelOnPrepareSettled(w, n) == TRUE

\* nothing awaits the promise, so its rejection does not reach the hook
ParallelOnPrepareRejected(w, n) == FALSE

\* step that walks the content from its last entry
SequenceStepReverse(w, n) ==
  LET w0 == [w EXCEPT !.stepCalls[n] = @ + 1]
  IN IF w.status[n] = done
     THEN [w0 EXCEPT !.stepErr[n] = @ + 1]
     ELSE IF w.iterator[n] >= Len(w.content[n])
          THEN ComponentEnd(w0, n, "completion")
          ELSE LET pos == w.iterator[n]
                   c == w.content[n][Len(w.content[n]) - pos]
                   w1 == [w0 EXCEPT !.iterator[n] = pos + 1,
                                    !.curPos[n] = pos,
                                    !.curComp[n] = c,
                                    !.visited[n] = Append(@, <<pos, c>>),
                                    !.stepperOn[c] = TRUE]
               IN ComponentRun(w1, c)

\* step without the check of the status
SequenceStepUnguarded(w, n) ==
  LET w0 == [w EXCEPT !.stepCalls[n] = @ + 1]
  IN IF w.iterator[n] >= Len(w.content[n])
     THEN ComponentEnd(w0, n, "completion")
     ELSE LET pos == w.iterator[n]
              c == w.content[n][pos + 1]
              w1 == [w0 EXCEPT !.iterator[n] = pos + 1,
                               !.curPos[n] = pos,
                               !.curComp[n] = c,
                               !.visited[n] = Append(@, <<pos, c>>),
                               !.stepperOn[c] = TRUE]
          IN ComponentRun(w1, c)

\* Sequence.step
SequenceStep(w, n) ==
  LET w0 == [w EXCEPT !.stepCalls[n] = @ + 1]
  IN IF w.status[n] = done
     THEN [w0 EXCEPT !.stepErr[n] = @ + 1]
     ELSE IF w.iterator[n] >= Len(w.content[n])
          THEN ComponentEnd(w0, n, "completion")
          ELSE LET pos == w.iterator[n]
                   c == w.content[n][pos + 1]
                   w1 == [w0 EXCEPT !.iterator[n] = pos + 1,
                                    !.curPos[n] = pos,
                                    !.curComp[n] = c,
                                    !.visited[n] = Append(@, <<pos, c>>),
                                    !.stepperOn[c] = TRUE]
               IN ComponentRun(w1, c)

\* onRun that takes two steps
SequenceOnRunTwice(w, n) == SequenceStep(SequenceStep(w, n), n)

\* Sequence.onRun
SequenceOnRun(w, n) == SequenceStep(w, n)

\* onEnd that removes the listener and leaves the current component alone
SequenceOnEndOff(w, n) ==
  IF w.curComp[n] # NoComp /\ w.status[w.curComp[n]] # done
  THEN [w EXCEPT !.stepperOn[w.curComp[n]] = FALSE]
  ELSE w

\* Sequence.onEnd
SequenceOnEnd(w, n) ==
  IF w.curComp[n] # NoComp /\ w.status[w.curComp[n]] # done
  THEN ComponentEnd([w EXCEPT !.stepperOn[w.curComp[n]] = FALSE,
                               !.abortCalls[w.curComp[n]] = @ + 1],
                    w.curComp[n], "abort by sequence")
  ELSE w

\* onRun that runs the children before it waits for their end events
ParallelOnRunLate(w, n) ==
  LET w1 == RunAll(w, w.content[n], 1)
  IN [w1 EXCEPT
        !.waitEnd = [c \in Nodes |->
                       IF c \in Range(w.content[n]) THEN "waiting"
                       ELSE w1.waitEnd[c]],
        !.watcher[n] = "armed"]

\* Parallel.onRun: waitFor('end') on every child, the race / all over them
\* with its .then armed, then run on every child
ParallelOnRun(w, n) ==
  LET w1 == [w EXCEPT
               !.waitEnd = [c \in Nodes |->
                              IF c \in Range(w.content[n]) THEN "waiting"
                              ELSE w.waitEnd[c]],
               !.watcher[n] = "armed"]
  IN RunAll(w1, w.content[n], 1)

\* the watcher resolved by the first end whatever the mode
ParallelWatcherResolvedAny(w, n) ==
  \E c \in Range(w.content[n]) : w.waitEnd[c] = "resolved"

\* the watcher waiting for every child whatever the mode
ParallelWatcherResolvedAll(w, n) ==
  \A c \in Range(w.content[n]) : w.waitEnd[c] = "resolved"

\* Promise[mode] over the children's waitFor('end') has resolved
ParallelWatcherResolved(w, n) ==
  IF mode[n] = "all"
  THEN \A c \in Range(w.content[n]) : w.waitEnd[c] = "resolved"
  ELSE \E c \in Range(w.content[n]) : w.waitEnd[c] = "resolved"

\* the forEach without the check of the child's status
RECURSIVE EndAllUnguarded(_, _, _)
EndAllUnguarded(w, cs, i) ==
  IF i > Len(cs) THEN w
  ELSE EndAllUnguarded(ComponentEnd([w EXCEPT !.abortCalls[cs[i]] = @ + 1],
                                    cs[i], "abort by parallel"), cs, i + 1)

\* the forEach of Parallel.onEnd, from entry i on
EndAll(w, cs, i) ==
  IF i > Len(cs) THEN w
  ELSE EndAll(IF w.status[cs[i]] < done
              THEN ComponentEnd([w EXCEPT !.abortCalls[cs[i]] = @ + 1],
                                cs[i], "abort by parallel")
              ELSE w, cs, i + 1)

\* onEnd that leaves the children alone
ParallelOnEndNone(w, n) == w

\* Parallel.onEnd
ParallelOnEnd(w, n) == EndAll(w, w.content[n], 1)

\* Component.run: status running, then the onRun hook
ComponentRun(w, n) ==
  LET w1 == [w EXCEPT !.status[n] = running, !.runCalls[n] = @ + 1]
  IN CASE kind[n] = "seq" -> SequenceOnRun(w1, n)
       [] kind[n] = "par" -> ParallelOnRun(w1, n)
       [] OTHER -> w1

\* Component.end: status done, the onEnd hook, the end event (which resolves
\* a pending waitFor('end')); after:end is emitted in a later turn.  Ending
\* a component that is done already is a no-op.
ComponentEnd(w, n, reason) ==
  LET w0 == [w EXCEPT !.endCalls[n] = @ + 1]
  IN IF w.status[n] = done
     THEN w0
     ELSE LET w1 == [w0 EXCEPT !.status[n] = done, !.endedOn[n] = reason]
              w2 == CASE kind[n] = "seq" -> SequenceOnEnd(w1, n)
                      [] kind[n] = "par" -> ParallelOnEnd(w1, n)
                      [] OTHER -> w1
          IN [w2 EXCEPT !.waitEnd[n] = IF @ = "waiting" THEN "resolved" ELSE @,
                        !.afterEnd[n] = TRUE]

\* ------------------------------------------------------------- progress
RECURSIVE Progress(_, _)

\* progress of the base component
ComponentProgress(w, n) == IF w.status[n] = done THEN One ELSE Zero

\* progress that is the mean whatever the status
SequenceProgressMean(w, n) ==
  mean([i \in 1..Len(w.content[n]) |-> Progress(w, w.content[n][i])])

\* Sequence.progress
SequenceProgress(w, n) ==
  IF w.status[n] = done THEN One
  ELSE mean([i \in 1..Len(w.content[n]) |-> Progress(w, w.content[n][i])])

\* Parallel.progress
ParallelProgress(w, n) ==
  IF w.status[n] = done THEN One
  ELSE mean([i \in 1..Len(w.content[n]) |-> Progress(w, w.content[n][i])])

Progress(w, n) ==
  CASE kind[n] = "seq" -> SequenceProgress(w, n)
    [] kind[n] = "par" -> ParallelProgress(w, n)
    [] OTHER -> ComponentProgress(w, n)

\* ---------------------------------------------------------------- Init
\* a container over k leaves
FlatShape(k, K, m, sh) ==
  [kind |-> [n \in Nodes |-> IF n = Root THEN K
                             ELSE IF n <= k + 1 THEN "leaf" ELSE "none"],
   content |-> [n \in Nodes |-> IF n = Root THEN [i \in 1..k |-> i + 1] ELSE <<>>],
   mode |-> [n \in Nodes |-> IF n = Root THEN m ELSE "none"],
   shuffle |-> [n \in Nodes |-> n = Root /\ sh]]

\* a container over a container of two leaves and a leaf
NestedShape(K1, m1, K2, m2) ==
  [kind |-> [n \in Nodes |-> IF n = 1 THEN K1 ELSE IF n = 2 THEN K2
                             ELSE IF n <= 5 THEN "leaf" ELSE "none"],
   content |-> [n \in Nodes |-> IF n = 1 THEN <<2, 3>>
                                ELSE IF n = 2 THEN <<4, 5>> ELSE <<>>],
   mode |-> [n \in Nodes |-> IF n = 1 THEN m1 ELSE IF n = 2 THEN m2 ELSE "none"],
   shuffle |-> [n \in Nodes |-> FALSE]]

KindModes == {<<"seq", "none">>, <<"par", "race">>, <<"par", "all">>}

Shapes ==
  {FlatShape(k, km[1], km[2], sh) :
     k \in 0..MaxChildren, km \in KindModes, sh \in BOOLEAN}
  \cup {NestedShape(a[1], a[2], b[1], b[2]) : a \in KindModes, b \in KindModes}

Keys == {"a", "b"}
Refs == {TemplateRef} \cup Nodes
EmptyBag == [k \in Keys |-> Undefined]
NoLoop == [template |-> "none", templateParameters |-> <<>>,
           sample |-> [n |-> Undefined, replace |-> FALSE]]

\* the state the constructors leave
InitState ==
  /\ parent = [n \in Nodes |-> NoComp]
  /\ status = [n \in Nodes |-> initialized]
  /\ prep = [n \in Nodes |-> "idle"]
  /\ iterator = [n \in Nodes |-> -1]
  /\ curPos = [n \in Nodes |-> -1]
  /\ curComp = [n \in Nodes |-> NoComp]
  /\ stepperOn = [n \in Nodes |-> FALSE]
  /\ afterEnd = [n \in Nodes |-> FALSE]
  /\ waitEnd = [n \in Nodes |-> "none"]
  /\ watcher = [n \in Nodes |-> "none"]
  /\ endedOn = [n \in Nodes |-> NoReason]
  /\ runCalls = [n \in Nodes |-> 0]
  /\ endCalls = [n \in Nodes |-> 0]
  /\ abortCalls = [n \in Nodes |-> 0]
  /\ stepCalls = [n \in Nodes |-> 0]
  /\ stepErr = [n \in Nodes |-> 0]
  /\ directSteps = [n \in Nodes |-> 0]
  /\ visited = [n \in Nodes |-> <<>>]
  /\ paramsRef = [n \in Nodes |-> n]
  /\ made = [n \in Nodes |-> <<>>]
  /\ log = <<>>
  /\ writes = 0

Init ==
  /\ \E s \in Shapes :
       /\ s.kind[Root] = "seq" \/ \A n \in Nodes : ~s.shuffle[n]
       /\ kind = s.kind
       /\ content = s.content
       /\ mode = s.mode
       /\ shuffle = s.shuffle
  /\ \E rid \in {NoId, "P"} : optId = [n \in Nodes |-> IF n = Root THEN rid ELSE NoId]
  /\ loopOpt = NoLoop
  /\ paramsObj = [r \in Refs |-> EmptyBag]
  /\ InitState

\* ------------------------------------------------------------- actions
AllPrepared == \A n \in Tree : prep[n] = "done"

\* the embedding code calls prepare() on the root
PrepareRoot ==
  /\ prep[Root] = "idle"
  /\ Apply([World EXCEPT !.prep[Root] = "called"])

\* prepare() of node n reaches its onPrepare hook
OnPrepare(n) ==
  /\ prep[n] = "called"
  /\ \E perm \in Shuffles(content[n]) :
       /\ ~shuffle[n] => perm = content[n]
       /\ LET w == [World EXCEPT !.prep[n] = "hooked"]
          IN Apply(CASE kind[n] = "seq" -> SequenceOnPrepare(w, n, perm)
                     [] kind[n] = "par" -> ParallelOnPrepare(w, n)
                     [] OTHER -> w)

\* the hook's promise has settled: prepare() sets the status and returns
PrepareSettle(n) ==
  /\ prep[n] = "hooked"
  /\ CASE kind[n] = "seq" -> SequenceOnPrepareSettled(World, n)
       [] kind[n] = "par" -> ParallelOnPrepareSettled(World, n)
       [] OTHER -> TRUE
  /\ Apply([World EXCEPT !.prep[n] = "done", !.status[n] = prepared])

\* the hook's promise has rejected (the preparation of a leaf may throw):
\* prepare() rejects
PrepareFail(n) ==
  /\ prep[n] = "hooked"
  /\ CASE kind[n] = "seq" -> SequenceOnPrepareRejected(World, n)
       [] kind[n] = "par" -> ParallelOnPrepareRejected(World, n)
       [] OTHER -> TRUE
  /\ Apply([World EXCEPT !.prep[n] = "failed"])

\* the embedding code calls run() on the root once the study is prepared
RunRoot ==
  /\ AllPrepared
  /\ status[Root] = prepared
  /\ Apply(ComponentRun(World, Root))

\* a running leaf ends by itself (response, timeout)
LeafEnd(c) ==
  /\ kind[c] = "leaf"
  /\ status[c] = running
  /\ Apply(ComponentEnd(World, c, "response"))

\* a component that has ended emits after:end; a subscribed stepper of the
\* parent Sequence takes its step
AfterEnd(c) ==
  /\ afterEnd[c]
  /\ LET w == [World EXCEPT !.afterEnd[c] = FALSE]
     IN Apply(IF stepperOn[c] THEN SequenceStep(w, parent[c]) ELSE w)

\* the .then of Parallel.onRun: this.end()
WatcherFire(p) ==
  /\ kind[p] = "par"
  /\ watcher[p] = "armed"
  /\ ParallelWatcherResolved(World, p)
  /\ Apply(ComponentEnd([World EXCEPT !.watcher[p] = "fired"], p, NoReason))

\* a container is ended from outside while it runs, or the root before its run
ForceEnd(n) ==
  /\ n \in Containers
  /\ status[n] = running \/ (n = Root /\ status[n] = prepared /\ AllPrepared)
  /\ Apply(ComponentEnd(World, n, "forced"))

\* the embedding code calls step() on a Sequence that has ended
DirectStep(n) ==
  /\ kind[n] = "seq"
  /\ status[n] = done
  /\ directSteps[n] < MaxDirectSteps
  /\ Apply(SequenceStep([World EXCEPT !.directSteps[n] = @ + 1], n))

Next ==
  \/ PrepareRoot
  \/ \E n \in Nodes : OnPrepare(n)
  \/ \E n \in Nodes : PrepareSettle(n)
  \/ \E n \in Nodes : PrepareFail(n)
  \/ RunRoot
  \/ \E c \in Nodes : LeafEnd(c)
  \/ \E c \in Nodes : AfterEnd(c)
  \/ \E p \in Nodes : WatcherFire(p)
  \/ \E n \in Nodes : ForceEnd(n)
  \/ \E n \in Nodes : DirectStep(n)

Spec == Init /\ [][Next]_vars

TypeOK ==
  /\ \A n \in Nodes : status[n] \in {initialized, prepared, running, done}
  /\ \A n \in Nodes : iterator[n] \in -1..Len(content[n])

\* the scheduling of the runtime: the job queue drains, so the .then of a
\* resolved promise does run
LiveSpec == Spec /\ WF_vars(WatcherFire(Root))

\* the same, for children that each eventually end: a running leaf ends, a
\* pending after:end is emitted, a resolved watcher runs its .then
EndingSpec ==
  Spec /\ WF_vars(\E n \in Nodes : LeafEnd(n) \/ AfterEnd(n) \/ WatcherFire(n))

\* ------------------------------------------------------- deeper nesting
\* a container over a container over a container of two leaves
DeepShape(K1, m1, K2, m2, K3, m3) ==
  [kind |-> [n \in Nodes |-> IF n = 1 THEN K1 ELSE IF n = 2 THEN K2
                             ELSE IF n = 3 THEN K3
                             ELSE IF n <= 5 THEN "leaf" ELSE "none"],
   content |-> [n \in Nodes |-> IF n = 1 THEN <<2>> ELSE IF n = 2 THEN <<3>>
                                ELSE IF n = 3 THEN <<4, 5>> ELSE <<>>],
   mode |-> [n \in Nodes |-> IF n = 1 THEN m1 ELSE IF n = 2 THEN m2
                             ELSE IF n = 3 THEN m3 ELSE "none"],
   shuffle |-> [n \in Nodes |-> FALSE]]

\* a container over a container without children and a leaf: the first
\* child, when it is a Sequence, ends inside its own run call
EarlyShape(K1, m1, K2, m2) ==
  [kind |-> [n \in Nodes |-> IF n = 1 THEN K1 ELSE IF n = 2 THEN K2
                             ELSE IF n = 3 THEN "leaf" ELSE "none"],
   content |-> [n \in Nodes |-> IF n = 1 THEN <<2, 3>> ELSE <<>>],
   mode |-> [n \in Nodes |-> IF n = 1 THEN m1 ELSE IF n = 2 THEN m2 ELSE "none"],
   shuffle |-> [n \in Nodes |-> FALSE]]

NestShapes ==
  {DeepShape(a[1], a[2], b[1], b[2], c[1], c[2]) :
     a \in KindModes, b \in KindModes, c \in KindModes}
  \cup {EarlyShape(a[1], a[2], b[1], b[2]) : a \in KindModes, b \in KindModes}

NestInit ==
  /\ \E s \in NestShapes :
       /\ kind = s.kind
       /\ content = s.content
       /\ mode = s.mode
       /\ shuffle = s.shuffle
  /\ optId = [n \in Nodes |-> NoId]
  /\ loopOpt = NoLoop
  /\ paramsObj = [r \in Refs |-> EmptyBag]
  /\ InitState

NestSpec == NestInit /\ [][Next]_vars

\* ------------------------------------------------------------------ Loop
\* a Loop is a Sequence (the root, kind "seq") that generates its content
\* from a template when it is prepared
TemplateBag == [k \in Keys |-> 0]

\* the records of templateParameters: {a: 1}, {a: 2, b: 2}, {a: 3}, ...
ParamRecord(i) ==
  [k \in Keys |-> IF k = "a" THEN i ELSE IF i % 2 = 0 THEN i ELSE Undefined]

ParamLists == {[i \in 1..k |-> ParamRecord(i)] : k \in 0..MaxParameters}

\* the truthiness of a number or undefined
Truthy(x) == x # Undefined /\ x # 0

\* {...t, ...p}: the keys of p override those of t
Merge(t, p) == [k \in Keys |-> IF p[k] # Undefined THEN p[k] ELSE t[k]]

\* random.sample(population, n, replace): the draws it can return, as
\* positions in the population; none when the request cannot be satisfied
RandomSample(population, n, replace) ==
  {d \in [1..n -> 1..Len(population)] :
     replace \/ \A i, j \in 1..n : d[i] = d[j] => i = j}

LoopSampled == Truthy(loopOpt.sample.n)

LoopDraws ==
  IF LoopSampled
  THEN RandomSample(loopOpt.templateParameters, loopOpt.sample.n,
                    loopOpt.sample.replace)
  ELSE {<<>>}

\* Loop.onPrepare: the parameter list the children are generated from
LoopParameters(draw) ==
  IF LoopSampled
  THEN [i \in 1..Len(draw) |-> loopOpt.templateParameters[draw[i]]]
  ELSE loopOpt.templateParameters

\* the components the generation creates, in the order of their creation
LoopNewComponents(n, tp) == [i \in 1..Len(tp) |-> n + i]

\* a factory called with positions counted from one
LoopFactoryArgsOneBased(tp, i, n) == <<tp[i], i, n>>

\* the arguments of the factory call for the i-th record (map index i - 1)
LoopFactoryArgs(tp, i, n) == <<tp[i], i - 1, n>>

\* clones that keep the parameter object of the template and assign into it
LoopCloneParametersShared(w, c, p) ==
  [w EXCEPT !.paramsRef[c] = TemplateRef,
            !.paramsObj[TemplateRef] = Merge(@, p)]

\* c = template.clone(); c.options.parameters = {...c.options.parameters, ...p}
LoopCloneParameters(w, c, p) ==
  [w EXCEPT !.paramsRef[c] = c,
            !.paramsObj[c] = Merge(w.paramsObj[TemplateRef], p)]

RECURSIVE LoopClones(_, _, _, _)
LoopClones(w, n, tp, i) ==
  IF i > Len(tp) THEN w
  ELSE LoopClones(LoopCloneParameters(w, n + i, tp[i]), n, tp, i + 1)

\* a generation that calls whatever the template is
LoopGenerateAlways(w, n, tp) ==
  CASE loopOpt.template = "prototype" ->
         [LoopClones(w, n, tp, 1) EXCEPT !.content[n] = LoopNewComponents(n, tp)]
    [] OTHER ->
         [w EXCEPT
            !.made = [c \in Nodes |->
                        IF c \in Range(LoopNewComponents(n, tp))
                        THEN LoopFactoryArgs(tp, c - n, n) ELSE w.made[c]],
            !.content[n] = LoopNewComponents(n, tp)]

\* Loop.onPrepare: the content by the kind of the template
LoopGenerate(w, n, tp) ==
  CASE loopOpt.template = "prototype" ->
         [LoopClones(w, n, tp, 1) EXCEPT !.content[n] = LoopNewComponents(n, tp)]
    [] loopOpt.template = "factory" ->
         [w EXCEPT
            !.made = [c \in Nodes |->
                        IF c \in Range(LoopNewComponents(n, tp))
                        THEN LoopFactoryArgs(tp, c - n, n) ELSE w.made[c]],
            !.content[n] = LoopNewComponents(n, tp)]
    [] OTHER -> [w EXCEPT !.log = Append(@, "warn")]

LoopLogSample(w) == IF LoopSampled THEN [w EXCEPT !.log = Append(@, "sample")] ELSE w

\* a hook that runs the Sequence preparation before it generates the content
LoopOnPrepareSuperFirst(w, n, draw, perm) ==
  LoopGenerate(LoopLogSample(SequenceOnPrepare(w, n, <<>>)), n, LoopParameters(draw))

\* Loop.onPrepare: sample, generate and assign the content, then the
\* preparation of a Sequence
LoopOnPrepare(w, n, draw, perm) ==
  SequenceOnPrepare(LoopGenerate(LoopLogSample(w), n, LoopParameters(draw)), n, perm)

LoopOptions ==
  {[template |-> t, templateParameters |-> ps, sample |-> [n |-> sn, replace |-> r]] :
     t \in {"prototype", "factory", "invalid"}, ps \in ParamLists,
     sn \in {Undefined} \cup 0..MaxSample, r \in BOOLEAN}

\* new Loop(options): no content yet
LoopInit ==
  /\ kind = [n \in Nodes |-> IF n = Root THEN "seq" ELSE "none"]
  /\ content = [n \in Nodes |-> <<>>]
  /\ mode = [n \in Nodes |-> "none"]
  /\ \E sh \in BOOLEAN : shuffle = [n \in Nodes |-> n = Root /\ sh]
  /\ optId = [n \in Nodes |-> NoId]
  /\ loopOpt \in LoopOptions
  /\ paramsObj = [r \in Refs |-> IF r = TemplateRef /\ loopOpt.template = "prototype"
                                 THEN TemplateBag ELSE EmptyBag]
  /\ InitState

\* prepare() of the Loop reaches its onPrepare hook
LoopPrepare ==
  /\ loopOpt.template # "none"
  /\ prep[Root] = "called"
  /\ \E draw \in LoopDraws :
       LET w == [World EXCEPT !.prep[Root] = "hooked"]
           generated == LoopGenerate(w, Root, LoopParameters(draw)).content[Root]
       IN \E perm \in Shuffles(generated) :
            /\ ~shuffle[Root] => perm = generated
            /\ LET w2 == LoopOnPrepare(w, Root, draw, perm)
               IN /\ ApplyWorld(w2)
                  /\ kind' = [c \in Nodes |->
                                IF c \in Range(w2.content[Root]) THEN "leaf" ELSE kind[c]]
                  /\ UNCHANGED <<mode, shuffle, loopOpt>>

\* random.sample raises inside the hook: prepare() of the Loop rejects
LoopPrepareThrows ==
  /\ loopOpt.template # "none"
  /\ prep[Root] = "called"
  /\ LoopDraws = {}
  /\ Apply([LoopLogSample(World) EXCEPT !.prep[Root] = "failed"])

\* values no record and no template holds, a new one for every write
WrittenValue == MaxParameters + MaxSample + 1

\* the embedding code sets a parameter of the template or of a child
SetParameter(r, k) ==
  /\ writes < MaxWrites
  /\ prep[Root] \notin {"idle", "called"}
  /\ r = TemplateRef \/ \E c \in Range(content[Root]) : r = paramsRef[c]
  /\ Apply([World EXCEPT !.paramsObj[r][k] = WrittenValue + writes,
                         !.writes = @ + 1])

LoopNext ==
  \/ PrepareRoot
  \/ LoopPrepare
  \/ LoopPrepareThrows
  \/ \E n \in Nodes \ {Root} : OnPrepare(n)
  \/ \E n \in Nodes : PrepareSettle(n)
  \/ \E n \in Nodes : PrepareFail(n)
  \/ RunRoot
  \/ \E c \in Nodes : LeafEnd(c)
  \/ \E c \in Nodes : AfterEnd(c)

LoopSpec == LoopInit /\ [][LoopNext]_vars

\* the generation of the content and the writes of the embedding code to
\* the parameters it produced
CloneNext ==
  \/ PrepareRoot
  \/ LoopPrepare
  \/ LoopPrepareThrows
  \/ \E r \in Refs, k \in Keys : SetParameter(r, k)

CloneSpec == LoopInit /\ [][CloneNext]_vars

\* ---------------------------------------------------------------- claims
ChildrenOf(n) == Range(content[n])
RunningChildren(n) == {c \in ChildrenOf(n) : status[c] = running}
StructParent(c) == CHOOSE n \in Nodes : c \in Range(content[n])
Forced(n) == endedOn[n] \in {"forced", "abort by sequence", "abort by parallel"}

\* C1: in a Sequence at most one child runs at a time, and when an entry
\* has been pulled from the cursor every entry pulled before it has ended
\* and has emitted its after:end event.
C1_OneChildAtATime ==
  \A s \in Sequences :
    /\ Cardinality(RunningChildren(s)) <= 1
    /\ \A i \in 1..Len(visited[s]) :
         \A j \in 1..(i - 1) :
           /\ status[visited[s][j][2]] = done
           /\ ~afterEnd[visited[s][j][2]]

C1_Witness ==
  \E s \in Sequences :
    /\ Len(visited[s]) >= 2
    /\ status[curComp[s]] = running
    /\ status[s] = running

\* C2: the entries a Sequence pulls are (0, content[0]), (1, content[1]), ...
\* in this order, no child is run twice, and a Sequence that ended with
\* reason "completion" has run each of its n children exactly once, all of
\* them have ended, and it took n + 1 steps that did not fail; when its
\* children each eventually end, a running Sequence does end.
C2_Visits ==
  \A s \in Sequences :
    /\ \A i \in 1..Len(visited[s]) : visited[s][i] = <<i - 1, content[s][i]>>
    /\ \A c \in ChildrenOf(s) : runCalls[c] <= 1
    /\ iterator[s] >= 0 => iterator[s] = Len(visited[s])
    /\ curPos[s] = Len(visited[s]) - 1
    /\ endedOn[s] = "completion" =>
         /\ Len(visited[s]) = Len(content[s])
         /\ \A c \in ChildrenOf(s) : runCalls[c] = 1 /\ status[c] = done
         /\ stepCalls[s] - stepErr[s] = Len(content[s]) + 1

C2_VisitsInOrder ==
  /\ []C2_Visits
  /\ (kind[Root] = "seq" /\ status[Root] = running) ~> (status[Root] = done)

C2_Witness ==
  \E s \in Sequences :
    /\ endedOn[s] = "completion"
    /\ Len(content[s]) >= 2
    /\ shuffle[s]
    /\ content[s][1] > content[s][2]

\* C3: a step() invoked on a Sequence whose status is done throws, each
\* time, and changes neither the cursor, the current position and
\* component, the listeners nor any component's status, run or end.
C3_StepOnDoneFails ==
  [][\A n \in Nodes :
       (status[n] = done /\ stepCalls'[n] # stepCalls[n]) =>
         /\ stepCalls'[n] = stepCalls[n] + 1
         /\ stepErr'[n] = stepErr[n] + 1
         /\ UNCHANGED <<iterator, curPos, curComp, visited, stepperOn,
                        status, runCalls, endCalls, endedOn, content>>]_vars

C3_Witness ==
  \E n \in Sequences :
    /\ status[n] = done
    /\ stepErr[n] >= 2
    /\ iterator[n] < Len(content[n])

\* C4 as stated: the progress of a container is 1 if and only if its
\* status is done.
C4_ProgressOneIffDone ==
  \A n \in Containers : (Progress(World, n) = One) <=> (status[n] = done)

\* C4 amended: the progress of a container that is done is 1; the progress
\* of a container that is not done is the mean of its children's progress,
\* a leaf counting 1 when it is done and 0 otherwise (and the mean can be 1
\* before the container is done).
C4_ProgressDoneOrMean ==
  \A n \in Containers :
    LET value(c) == IF kind[c] = "leaf"
                    THEN (IF status[c] = done THEN One ELSE Zero)
                    ELSE Progress(World, c)
        total == RatSum([i \in 1..Len(content[n]) |-> value(content[n][i])], 1)
    IN /\ status[n] = done => Progress(World, n) = One
       /\ status[n] # done =>
            Progress(World, n) =
              (IF Len(content[n]) = 0 THEN NaN ELSE RatDiv(total, Len(content[n])))

C4_Witness ==
  \E n \in Sequences :
    /\ status[n] = done
    /\ \E c \in ChildrenOf(n) : status[c] # done
    /\ \E m \in Containers : status[m] = running /\ Progress(World, m) = <<1, 2>>

\* C5: a Parallel with mode "all" that its watcher has ended was ended
\* after every child had ended by itself (no child was aborted by it), and
\* once every child's end event has fired the Parallel does end.
C5_AllJoin ==
  /\ [](\A p \in Nodes :
          (kind[p] = "par" /\ mode[p] = "all" /\ status[p] = done
             /\ endedOn[p] = NoReason) =>
            \A c \in ChildrenOf(p) :
              /\ status[c] = done
              /\ endedOn[c] # "abort by parallel"
              /\ abortCalls[c] = 0)
  /\ (kind[Root] = "par" /\ mode[Root] = "all" /\ watcher[Root] = "armed"
        /\ \A c \in ChildrenOf(Root) : status[c] = done)
       ~> (status[Root] = done)

C5_Witness ==
  \E p \in Parallels :
    /\ mode[p] = "all"
    /\ Len(content[p]) >= 3
    /\ status[p] = done
    /\ endedOn[p] = NoReason

\* C6: a Parallel with mode "race" that its watcher has ended had a child
\* that ended by itself; every child is then done, a child that was not done
\* was ended once by the Parallel with reason "abort by parallel", a child
\* that was done was not ended by it; and once the first child's end event
\* has fired the Parallel does end.
C6_RaceJoin ==
  /\ [](\A p \in Nodes :
          (kind[p] = "par" /\ mode[p] = "race") =>
            /\ \A c \in ChildrenOf(p) :
                 /\ abortCalls[c] <= 1
                 /\ abortCalls[c] = 1 <=> endedOn[c] = "abort by parallel"
                 /\ abortCalls[c] = 1 => status[p] = done
            /\ (status[p] = done /\ endedOn[p] = NoReason) =>
                 /\ \A c \in ChildrenOf(p) : status[c] = done
                 /\ \E c \in ChildrenOf(p) : abortCalls[c] = 0)
  /\ (kind[Root] = "par" /\ mode[Root] = "race" /\ watcher[Root] = "armed"
        /\ \E c \in ChildrenOf(Root) : status[c] = done)
       ~> (status[Root] = done)

C6_Witness ==
  \E p \in Parallels :
    /\ mode[p] = "race"
    /\ status[p] = done
    /\ endedOn[p] = NoReason
    /\ Cardinality({c \in ChildrenOf(p) : abortCalls[c] = 1}) >= 1
    /\ Cardinality({c \in ChildrenOf(p) : abortCalls[c] = 0}) >= 2

\* C7: the end events of the children a Parallel force-ends in onEnd do not
\* make its watcher invoke end again: the end of a Parallel is invoked at
\* most once, unless the watcher had been resolved by children that ended by
\* themselves (every child under "all", some child under "race").
C7_AbortsDoNotRetrigger ==
  \A p \in Parallels :
    endCalls[p] > 1 =>
      IF mode[p] = "all"
      THEN \A c \in ChildrenOf(p) : abortCalls[c] = 0
      ELSE \E c \in ChildrenOf(p) : status[c] = done /\ abortCalls[c] = 0

\* C8: step is never invoked on a Sequence that has ended, so no step
\* raises, other than the steps the embedding code makes itself.
C8_NoStepAfterEnd == \A s \in Sequences : stepErr[s] = directSteps[s]

\* C9 as stated: every child of a container that was forced to end is done.
C9_ForcedEndAllChildrenDone ==
  \A n \in Containers : Forced(n) => \A c \in ChildrenOf(n) : status[c] = done

\* C9 amended: after a forced end no child of the container is running;
\* every child of a Parallel is done, and every child of a Sequence is done
\* or was never run and keeps the status it had.
C9_ForcedEndNoChildRunning ==
  \A n \in Containers :
    Forced(n) =>
      /\ \A c \in ChildrenOf(n) : status[c] # running
      /\ kind[n] = "par" => \A c \in ChildrenOf(n) : status[c] = done
      /\ kind[n] = "seq" =>
           \A c \in ChildrenOf(n) :
             status[c] = done \/ (status[c] = prepared /\ runCalls[c] = 0)

C9_Witness ==
  \E n \in Sequences :
    /\ endedOn[n] = "forced"
    /\ \E c \in ChildrenOf(n) : endedOn[c] = "abort by sequence"
    /\ \E c \in ChildrenOf(n) : status[c] = prepared

\* C10: a component whose prepare has been invoked has its parent link and
\* its id: the id is the sibling index alone under a parent without id and
\* the parent's id, "_" and the sibling index otherwise, the parent's id
\* being the one derived the same way; ids in a tree are distinct; a
\* component whose prepare has not been invoked has neither.
Digits == <<"0", "1", "2", "3", "4", "5">>
RECURSIVE ExpectedId(_)
ExpectedId(c) ==
  IF c = Root THEN optId[Root]
  ELSE LET p == StructParent(c)
           d == Digits[IndexOf(content[p], c)]
       IN IF ExpectedId(p) = NoId THEN d ELSE ExpectedId(p) \o "_" \o d

C10_NestedIds ==
  /\ \A c \in Tree \ {Root} :
       IF prep[c] = "idle"
       THEN optId[c] = NoId /\ parent[c] = NoComp
       ELSE optId[c] = ExpectedId(c) /\ parent[c] = StructParent(c)
  /\ \A a, b \in Tree :
       (a # b /\ prep[a] # "idle" /\ prep[b] # "idle") => optId[a] # optId[b]
  /\ (kind[2] = "leaf" /\ Len(content[Root]) = 3 /\ prep[2] # "idle") =>
       [i \in 1..3 |-> optId[content[Root][i]]] =
         (IF optId[Root] = NoId THEN <<"0", "1", "2">> ELSE <<"P_0", "P_1", "P_2">>)

C10_Witness ==
  /\ optId[Root] = "P"
  /\ \E c \in Tree : optId[c] = "P_0_1" /\ prep[c] = "done"

\* C11: the prepare of a container does not complete successfully before
\* the preparation of every child has settled successfully, and it fails
\* once the preparation of a child has failed.
C11_PrepareAwaitsChildren ==
  \A n \in Containers :
    /\ prep[n] = "done" => \A c \in ChildrenOf(n) : prep[c] = "done"
    /\ (prep[n] \in {"done", "failed"} /\ \E c \in ChildrenOf(n) : prep[c] = "failed")
         => prep[n] = "failed"

ParametersOf(c) == paramsObj[paramsRef[c]]
LoopHooked == prep[Root] \notin {"idle", "called"}

\* C12: a Loop with a factory template and no sample count holds, once its
\* preparation has generated the content, one child per parameter record:
\* the i-th child is the result of the factory call with the i-th record, the
\* index i and the Loop, each record used once (a shuffle permutes them).
C12_FactoryContent ==
  (loopOpt.template = "factory" /\ loopOpt.sample.n = Undefined /\ LoopHooked) =>
    LET tp == loopOpt.templateParameters
    IN /\ Len(content[Root]) = Len(tp)
       /\ \A i \in 1..Len(tp) :
            Cardinality({j \in 1..Len(content[Root]) :
                           made[content[Root][j]] = <<tp[i], i - 1, Root>>}) = 1
       /\ ~shuffle[Root] =>
            \A i \in 1..Len(tp) : made[content[Root][i]] = <<tp[i], i - 1, Root>>

C12_Witness ==
  /\ loopOpt.template = "factory"
  /\ loopOpt.sample.n = Undefined
  /\ ~shuffle[Root]
  /\ status[Root] = done
  /\ Len(content[Root]) >= 2
  /\ made[content[Root][2]] = <<ParamRecord(2), 1, Root>>

\* C13: when a Loop with a prototype template generates its content, every
\* child's parameters are the template's parameters overridden by the
\* child's record, the template's parameters stay as they were, and a later
\* write to the parameters of one of them (a child or the template) changes
\* the parameters of no other.
C13_ClonesMergedIndependent ==
  [][loopOpt.template = "prototype" =>
       /\ (prep[Root] = "called" /\ prep'[Root] = "hooked") =>
            /\ paramsObj'[TemplateRef] = paramsObj[TemplateRef]
            /\ \A c \in Range(content'[Root]) :
                 \E p \in Range(loopOpt.templateParameters) :
                   paramsObj'[paramsRef'[c]] = Merge(paramsObj[TemplateRef], p)
            /\ loopOpt.sample.n = Undefined =>
                 /\ Len(content'[Root]) = Len(loopOpt.templateParameters)
                 /\ \A i \in 1..Len(loopOpt.templateParameters) :
                      paramsObj'[paramsRef'[Root + i]] =
                        Merge(paramsObj[TemplateRef], loopOpt.templateParameters[i])
       /\ writes' # writes =>
            Cardinality({c \in Range(content[Root]) :
                           paramsObj'[paramsRef'[c]] # paramsObj[paramsRef[c]]})
              + (IF paramsObj'[TemplateRef] # paramsObj[TemplateRef] THEN 1 ELSE 0) = 1
    ]_vars

C13_Witness ==
  /\ loopOpt.template = "prototype"
  /\ writes > 0
  /\ paramsObj[TemplateRef] = TemplateBag
  /\ \E c, d \in Range(content[Root]) :
       /\ c # d
       /\ ParametersOf(c)["a"] = WrittenValue
       /\ ParametersOf(d) = Merge(TemplateBag, ParamRecord(1))
       /\ ParametersOf(d)["b"] = TemplateBag["b"]

C15_SampleCountDrawn ==
  (loopOpt.template \in {"prototype", "factory"} /\ LoopHooked /\ LoopDraws # {}) =>
    Len(content[Root]) = IF loopOpt.sample.n # Undefined
                         THEN loopOpt.sample.n
                         ELSE Len(loopOpt.templateParameters)

\* C17: the preparation of a Loop samples, generates and assigns the content,
\* and only then shuffles, builds the cursor and prepares the children: the
\* draw precedes the shuffle, the content is a permutation of the generated
\* list, the cursor runs over the shuffled list from its start, and the
\* children of the shuffled list got their parent, their id by position and
\* their prepare.
C17_LoopPrepareOrder ==
  (loopOpt.template # "none" /\ LoopHooked /\ LoopDraws # {}) =>
    LET k == IF loopOpt.template = "invalid" THEN 0
             ELSE IF LoopSampled THEN loopOpt.sample.n
             ELSE Len(loopOpt.templateParameters)
    IN /\ log = (IF LoopSampled THEN <<"sample">> ELSE <<>>)
                \o (IF loopOpt.template = "invalid" THEN <<"warn">> ELSE <<>>)
                \o (IF shuffle[Root] THEN <<"shuffle">> ELSE <<>>)
       /\ Len(content[Root]) = k
       /\ Range(content[Root]) = {Root + i : i \in 1..k}
       /\ ~shuffle[Root] => content[Root] = [i \in 1..k |-> Root + i]
       /\ iterator[Root] = Len(visited[Root])
       /\ \A i \in 1..Len(visited[Root]) :
            visited[Root][i] = <<i - 1, content[Root][i]>>
       /\ \A i \in 1..k :
            /\ parent[content[Root][i]] = Root
            /\ optId[content[Root][i]] = ToString(i - 1)
            /\ prep[content[Root][i]] # "idle"

C17_Witness ==
  /\ LoopSampled
  /\ shuffle[Root]
  /\ log = <<"sample", "shuffle">>
  /\ Len(content[Root]) >= 2
  /\ content[Root][1] > content[Root][2]
  /\ endedOn[Root] = "completion"

EmptyParallel(p, m) == kind[p] = "par" /\ mode[p] = m /\ content[p] = <<>>

\* C16: a Parallel without children and with mode "all" that runs does end
\* with no trigger from outside; a Parallel without children and with mode
\* "race" is never ended by its watcher: when it is done, it was ended from
\* outside.
C16_EmptyParallel ==
  /\ [](\A p \in Nodes :
          EmptyParallel(p, "race") =>
            /\ watcher[p] # "fired"
            /\ ~ParallelWatcherResolved(World, p)
            /\ status[p] = done => endedOn[p] = "forced")
  /\ (EmptyParallel(Root, "all") /\ status[Root] = running) ~> (status[Root] = done)

C16_Witness ==
  \/ EmptyParallel(Root, "all") /\ status[Root] = done /\ endedOn[Root] = NoReason
  \/ EmptyParallel(Root, "race") /\ status[Root] = done /\ endedOn[Root] = "forced"

\* C18: the progress of every Sequence and Parallel is a number between 0
\* and 1 in every reachable state, also when the container has no children
\* and has not ended.
C18_ProgressInUnitInterval ==
  \A n \in Containers :
    /\ Progress(World, n) # NaN
    /\ Progress(World, n)[2] > 0
    /\ 0 <= Progress(World, n)[1]
    /\ Progress(World, n)[1] <= Progress(World, n)[2]

\* C19: when the root has ended, by whatever cause, no component at any
\* depth below it is running, and from then on no component is run.
C19_EndedRootStopsDescendants ==
  [][/\ status'[Root] = done => \A n \in Nodes : status'[n] # running
     /\ status[Root] = done => runCalls' = runCalls]_vars

C19_Witness ==
  /\ status[Root] = done
  /\ endedOn[Root] \in {"forced", NoReason}
  /\ \E n \in Nodes :
       /\ parent[n] \notin {NoComp, Root}
       /\ parent[parent[n]] \notin {NoComp, Root}
       /\ parent[parent[parent[n]]] = Root
       /\ runCalls[n] = 1
       /\ Forced(n)
       /\ Forced(parent[n])
       /\ Forced(parent[parent[n]])

\* C20: a Parallel that has been run waits for the end event of every child
\* and has run every child, once, in the turn of its own run; a child that
\* has ended, even inside its own run call, has resolved the promise the
\* watcher holds for it.
C20_NoEndMissed ==
  \A p \in Parallels :
    runCalls[p] > 0 =>
      /\ watcher[p] # "none"
      /\ \A c \in ChildrenOf(p) :
           /\ runCalls[c] = 1
           /\ waitEnd[c] # "none"
           /\ status[c] = done => waitEnd[c] = "resolved"

C20_Witness ==
  /\ kind[Root] = "par"
  /\ mode[Root] = "all"
  /\ status[Root] = running
  /\ watcher[Root] = "armed"
  /\ \E c, d \in ChildrenOf(Root) :
       /\ kind[c] = "seq" /\ content[c] = <<>>
       /\ endedOn[c] = "completion"
       /\ waitEnd[c] = "resolved"
       /\ status[d] = running
       /\ waitEnd[d] = "waiting"

====
